---- MODULE Spec2Model ----
(***************************************************************************)
(* Session / conversation lifecycle of the FluentWork practice backend:    *)
(* the scenario selector (scenarios.py), the dialogue step and its         *)
(* end-of-session test (conversation_engine.py), the feedback step         *)
(* (feedback_analyzer.py) and the HTTP handlers with the global session    *)
(* map and the global UserProgress record (main.py).                       *)
(*                                                                         *)
(* Every handler is an `async def` without an await inside, so a handler   *)
(* runs to completion on the event loop: one action per handler.  Requests *)
(* that have arrived and wait for the event loop are held in `calls`.      *)
(* Message timestamps are not modelled (no handler reads them).            *)
(* USE_MOCK_MODE is False (main.py:40): the handlers call                  *)
(* get_manager_response and analyze_conversation.                          *)
(* Texts are strings; lower(), split() and the substring test of           *)
(* _surprise_already_introduced are computed on their characters.          *)
(***************************************************************************)
EXTENDS Integers, Sequences, FiniteSets, TLC

(***************************************************************************)
(* Bounds of the model.                                                    *)
(***************************************************************************)
\* value of the MAX_SESSION_DURATION environment variable, in clock ticks
\* (conversation_engine.py:108 reads it on every call; its default is 300)
MAX_SESSION_DURATION == 1
\* the clock stops one tick past the duration limit
MaxNow == MAX_SESSION_DURATION + 1
\* number of session identifiers uuid4 hands out in a run
MaxIds == 1
\* a conversation next to other stored sessions takes a turn only while it
\* has fewer turns than this, and a session is started only while no
\* stored conversation has more
MaxSharedHistory == 2
\* sessions with an identifier up to this one run to full length, while
\* they are the only stored session
MaxLongId == 1
\* get_feedback is served only while total_sessions is below this
MaxTotalSessions == 2
\* the selector specification draws total_sessions from 0..MaxT
MaxT == 20
\* get-manager-response requests that arrive in a run with requests in flight
MaxCalls == 2
MaxLateFailures == 1
\* the full-store specification starts with one session less than the
\* capacity and creates at most this many more
MaxStoreNew == 3

(***************************************************************************)
(* models.py: enumerations and defaults.                                   *)
(***************************************************************************)
EASY == "easy"
MEDIUM == "medium"
HARD == "hard"
ComplexityLevel == {EASY, MEDIUM, HARD}

MANAGER == "manager"
USER == "user"

None == "None"

Message(role, content) == [role |-> role, content |-> content]

\* UserProgress(): the defaults of the model class; the Optional
\* last_session_date is <<>> for None and <<t>> for a date
UserProgress ==
    [total_sessions |-> 0, current_complexity |-> EASY,
     streak_days |-> 0, last_session_date |-> <<>>]

(***************************************************************************)
(* scenarios.py: the catalog, in source order.  Of a scenario the          *)
(* handlers read id, complexity_level, surprise_element, initial_prompt.   *)
(***************************************************************************)
Scenario(id, level, surprise, prompt) ==
    [id |-> id, complexity_level |-> level,
     surprise_element |-> surprise, initial_prompt |-> prompt]

SCENARIOS == <<
    Scenario("easy_1", EASY, None,
             "Hi! How was your week? What did you work on?"),
    Scenario("easy_2", EASY, None,
             "Good morning! What are you currently working on?"),
    Scenario("medium_1", MEDIUM, "Manager asks about impact on timeline",
             "Hey, how's the API integration going?"),
    Scenario("medium_2", MEDIUM, "Manager asks you to propose a solution",
             "I wanted to check in on the new feature. How's it coming along?"),
    Scenario("medium_3", MEDIUM, "Manager asks when you followed up with other team",
             "What's the status on the homepage redesign?"),
    Scenario("medium_4", MEDIUM, "Manager asks if you need additional resources",
             "How's the database optimization task going?"),
    Scenario("hard_1", HARD, "Manager reveals client is waiting on this deliverable",
             "I need an update on the payment integration. The deadline is approaching."),
    Scenario("hard_2", HARD, "Manager suggests adding even more features",
             "How's the customer portal coming? I heard marketing had some ideas."),
    Scenario("hard_3", HARD, "Manager asks why you didn't mention this earlier",
             "How's the search algorithm refactoring going? You've been on it for a while."),
    Scenario("hard_4", HARD, "Manager adds another urgent task",
             "Quick check-in. What are you focusing on this week?"),
    Scenario("hard_5", HARD, "Manager emphasizes quality importance after you mention rushing",
             "The demo is in 3 days. Is everything ready?"),
    Scenario("easy_3", EASY, None,
             "Hi! I saw you closed the ticket. How did it go?"),
    Scenario("medium_5", MEDIUM, "Manager asks how this affects other features",
             "How's the reports feature? I know the requirements were updated."),
    Scenario("hard_6", HARD, "Manager asks about prevention measures",
             "I heard there's an issue in production. Can you update me?")
>>

ScenarioSet == {SCENARIOS[i] : i \in DOMAIN SCENARIOS}

get_scenarios_by_complexity(complexity) ==
    {SCENARIOS[i] : i \in {j \in DOMAIN SCENARIOS :
                             SCENARIOS[j].complexity_level = complexity}}

\* mutant: the EASY boundary is taken at total_sessions <= 2
select_available_EasyThroughTwo(user_progress) ==
    IF user_progress.total_sessions <= 2
    THEN get_scenarios_by_complexity(EASY)
    ELSE IF user_progress.total_sessions < 5
    THEN get_scenarios_by_complexity(MEDIUM)
    ELSE IF user_progress.total_sessions % 3 = 0
    THEN get_scenarios_by_complexity(HARD)
    ELSE get_scenarios_by_complexity(MEDIUM)

\* the list random.choice draws from, for a progress record
select_available(user_progress) ==
    IF user_progress.total_sessions < 2
    THEN get_scenarios_by_complexity(EASY)
    ELSE IF user_progress.total_sessions < 5
    THEN get_scenarios_by_complexity(MEDIUM)
    ELSE IF user_progress.total_sessions % 3 = 0
    THEN get_scenarios_by_complexity(HARD)
    ELSE get_scenarios_by_complexity(MEDIUM)

\* select_scenario_for_user returns any member of the list (random.choice)
select_scenario_for_user(user_progress) == select_available(user_progress)

determine_next_complexity(user_progress) ==
    IF user_progress.total_sessions < 2 THEN EASY
    ELSE IF user_progress.total_sessions < 5 THEN MEDIUM
    ELSE HARD


(***************************************************************************)
(* Inputs of the handlers.                                                 *)
(***************************************************************************)
\* request.user_message
UserTexts == {"I finished the login page."}

\* what client.chat.completions.create does on one call: it returns a text,
\* or the call (or reading its result) raises
GeneratorOutcomes ==
    {[ok |-> TRUE, content |-> "Thanks for the update."],
     [ok |-> FALSE, content |-> None]}

\* a reply of the generator that names the manager, as the surprise elements
\* of the catalog do
KEYWORD_REPLY == "Noted. As your Manager, I have to bring something up."

\* what the scorer call of analyze_conversation does on one call
ScorerOutcomes == {"scored", "raises"}

SessionIds == 1..MaxIds

(***************************************************************************)
(* State.                                                                  *)
(***************************************************************************)
\* main.py:39, the capacity of the session map
MAX_SESSIONS_IN_MEMORY == 100

VARIABLES
    sessions,       \* main.py:35, the OrderedDict as a sequence in insertion order
    user_progress,  \* main.py:36
    now,            \* datetime.now()
    next_id,        \* the next identifier uuid.uuid4() returns
    resp,           \* the last handler's response
    surprise_requests,  \* per session identifier, the number of generation
                        \* requests sent with the surprise instruction
    calls           \* the get-manager-response requests in flight, numbered
                    \* in order of arrival, and how many have arrived

vars == <<sessions, user_progress, now, next_id, resp, surprise_requests, calls>>

\* no request in flight
NoCalls == [pending |-> {}, arrived |-> 0]

Session(id, scenario, start_time) ==
    [id |-> id, scenario |-> scenario, conversation_history |-> <<>>,
     start_time |-> start_time, is_active |-> TRUE]

\* a response; the fields a handler does not return stay None, and
\* generator_failed tells whether the generator was called and raised
Response(op, session_id, status) ==
    [op |-> op, session_id |-> session_id, status |-> status,
     initial_prompt |-> None, manager_response |-> None,
     should_end_session |-> None, end_test |-> None,
     generator_failed |-> FALSE, feedback |-> None,
     sessions_completed |-> None, current_level |-> None, streak |-> None]

\* mutant: the identifier is taken for the position in the map
Lookup_Position(map, id) == IF id \in DOMAIN map THEN id ELSE 0

\* sessions.get(id): the position of the session in the map, 0 when absent
Lookup(map, id) ==
    IF \E i \in DOMAIN map : map[i].id = id
    THEN CHOOSE i \in DOMAIN map : map[i].id = id
    ELSE 0

StoredIds == {sessions[i].id : i \in DOMAIN sessions}
SessionOf(id) == sessions[Lookup(sessions, id)]

(***************************************************************************)
(* conversation_engine.py                                                  *)
(***************************************************************************)
FALLBACK_RESPONSE == "I see. Can you tell me more about that?"

\* the exchange count at which the conversation ends
END_EXCHANGE_COUNT == 6

\* a full-length conversation: the opening line and END_EXCHANGE_COUNT
\* exchanges; no turn is submitted to a longer history
MaxHistory == 2 * END_EXCHANGE_COUNT + 1

\* the histories the model lets a turn be submitted to
MayGrow(map, i) ==
    /\ Len(map[i].conversation_history) < MaxHistory
    /\ \/ Len(map[i].conversation_history) < MaxSharedHistory
       \/ Len(map) = 1 /\ map[i].id <= MaxLongId

exchange_count(session) == Len(session.conversation_history) \div 2

\* str.lower() on the letters the texts hold
UPPERCASE == "ABCDEFGHIJKLMNOPQRSTUVWXYZ"
LOWERCASE == "abcdefghijklmnopqrstuvwxyz"

CharAt(s, i) == SubSeq(s, i, i)

lower_char(c) ==
    IF \E i \in 1..Len(UPPERCASE) : CharAt(UPPERCASE, i) = c
    THEN CharAt(LOWERCASE, CHOOSE i \in 1..Len(UPPERCASE) : CharAt(UPPERCASE, i) = c)
    ELSE c

RECURSIVE lower(_)
lower(s) ==
    IF s = "" THEN "" ELSE lower_char(CharAt(s, 1)) \o lower(SubSeq(s, 2, Len(s)))

\* str.split(): the maximal runs of non-whitespace characters, in order
WHITESPACE == {" "}

RECURSIVE split_from(_, _, _)
split_from(s, i, word) ==
    IF i > Len(s)
    THEN IF word = "" THEN <<>> ELSE <<word>>
    ELSE IF CharAt(s, i) \in WHITESPACE
    THEN IF word = "" THEN split_from(s, i + 1, "")
         ELSE <<word>> \o split_from(s, i + 1, "")
    ELSE split_from(s, i + 1, word \o CharAt(s, i))

split(s) == split_from(s, 1, "")

\* keyword in msg_lower: the substring test of str
contains(text, keyword) ==
    \E i \in 1..(Len(text) - Len(keyword) + 1) :
        SubSeq(text, i, i + Len(keyword) - 1) = keyword

\* line 122: surprise_element.lower().split()[:3]
surprise_keywords(surprise_element) ==
    LET words == split(lower(surprise_element))
    IN  {words[i] : i \in 1..(IF Len(words) < 3 THEN Len(words) ELSE 3)}

\* mutant: the message is searched as written
msg_lower_AsWritten(content) == content

\* line 126: msg.content.lower()
msg_lower(content) == lower(content)

SurpriseElements ==
    {SCENARIOS[i].surprise_element : i \in DOMAIN SCENARIOS} \ {None}

\* mock_get_manager_response, lines 144-151: the predefined responses
MOCK_RESPONSES ==
    <<"That sounds good. How's the timeline looking?",
      "I see. Is there anything blocking you?",
      "Understood. What's your plan to move forward?",
      "Makes sense. Do you need any support from me?",
      "Got it. Keep me posted on how it goes.",
      "Thanks for the update. Let me know if anything comes up.">>

\* line 161 for every surprise element, evaluated once
MOCK_SURPRISE_RESPONSE ==
    [surprise_element \in SurpriseElements |->
        "Hmm, " \o lower(surprise_element) \o ". How does that affect things?"]

\* the texts a MANAGER turn can hold: an opening line, a generated reply,
\* the fallback reply or, in mock mode, a reply of the mock
ManagerTexts ==
    {SCENARIOS[i].initial_prompt : i \in DOMAIN SCENARIOS}
        \cup {o.content : o \in {g \in GeneratorOutcomes : g.ok}}
        \cup {KEYWORD_REPLY, FALLBACK_RESPONSE}
        \cup {MOCK_RESPONSES[i] : i \in DOMAIN MOCK_RESPONSES}
        \cup {MOCK_SURPRISE_RESPONSE[e] : e \in SurpriseElements}

\* line 127 for every surprise element and every text, evaluated once:
\* any(keyword in msg_lower for keyword in surprise_keywords)
any_keyword_in ==
    [surprise_element \in SurpriseElements, content \in ManagerTexts |->
        \E keyword \in surprise_keywords(surprise_element) :
            contains(msg_lower(content), keyword)]

_surprise_already_introduced(session) ==
    IF session.scenario.surprise_element = None THEN FALSE
    ELSE \E i \in DOMAIN session.conversation_history :
            /\ session.conversation_history[i].role = MANAGER
            /\ any_keyword_in[session.scenario.surprise_element,
                              session.conversation_history[i].content]

\* mutant: the instruction is added from the first exchange on
surprise_instruction_FromFirst(session) ==
    /\ session.scenario.surprise_element # None
    /\ exchange_count(session) >= 1
    /\ exchange_count(session) <= 4
    /\ ~_surprise_already_introduced(session)

\* mutant: the instruction is added up to the fifth exchange
surprise_instruction_ThroughFifth(session) ==
    /\ session.scenario.surprise_element # None
    /\ exchange_count(session) >= 2
    /\ exchange_count(session) <= 5
    /\ ~_surprise_already_introduced(session)

\* lines 59-66: whether the surprise instruction is added to the request
surprise_instruction(session) ==
    /\ session.scenario.surprise_element # None
    /\ exchange_count(session) >= 2
    /\ exchange_count(session) <= 4
    /\ ~_surprise_already_introduced(session)

\* mutant: the conversation ends only past END_EXCHANGE_COUNT exchanges
_should_end_conversation_PastCount(session, t) ==
    IF exchange_count(session) > END_EXCHANGE_COUNT
    THEN TRUE
    ELSE IF t - session.start_time >= MAX_SESSION_DURATION
    THEN TRUE
    ELSE FALSE

\* mutant: the conversation ends from the fifth exchange on
_should_end_conversation_FromFifth(session, t) ==
    IF exchange_count(session) >= END_EXCHANGE_COUNT - 1
    THEN TRUE
    ELSE IF t - session.start_time >= MAX_SESSION_DURATION
    THEN TRUE
    ELSE FALSE

_should_end_conversation(session, t) ==
    IF exchange_count(session) >= END_EXCHANGE_COUNT
    THEN TRUE
    ELSE IF t - session.start_time >= MAX_SESSION_DURATION
    THEN TRUE
    ELSE FALSE

\* mutant: the fallback path ends the session
get_manager_response_FallbackEnds(session, user_message, t, gen) ==
    IF gen.ok
    THEN [manager_response |-> gen.content,
          should_end |-> _should_end_conversation(session, t)]
    ELSE [manager_response |-> FALLBACK_RESPONSE, should_end |-> TRUE]

\* mutant: the fallback path returns the end test it had computed
get_manager_response_FallbackKeepsEndTest(session, user_message, t, gen) ==
    [manager_response |-> IF gen.ok THEN gen.content ELSE FALLBACK_RESPONSE,
     should_end |-> _should_end_conversation(session, t)]

\* get_manager_response, real mode: the end test is taken before the
\* generator is called; any exception inside the try block gives the
\* fallback text and False
get_manager_response(session, user_message, t, gen) ==
    LET should_end == _should_end_conversation(session, t)
    IN  IF gen.ok
        THEN [manager_response |-> gen.content, should_end |-> should_end]
        ELSE [manager_response |-> FALLBACK_RESPONSE, should_end |-> FALSE]

\* mock_get_manager_response: the response is picked by the exchange
\* count (responses[min(exchange_count, 5)], a 0-based index), replaced by
\* the surprise sentence at count 2, and should_end is count >= 5; the
\* clock is not read
mock_get_manager_response(session, user_message) ==
    LET count == exchange_count(session)
        response_index == IF count < Len(MOCK_RESPONSES) - 1 THEN count
                          ELSE Len(MOCK_RESPONSES) - 1
        manager_response ==
            IF /\ session.scenario.surprise_element # None
               /\ count = 2
               /\ ~_surprise_already_introduced(session)
            THEN MOCK_SURPRISE_RESPONSE[session.scenario.surprise_element]
            ELSE MOCK_RESPONSES[response_index + 1]
    IN  [manager_response |-> manager_response, should_end |-> count >= 5]

(***************************************************************************)
(* feedback_analyzer.py                                                    *)
(***************************************************************************)
\* models.py:42-47; scores are held in tenths (7.0 is 70)
Feedback(clarity_score, fluency_score, professional_score, improvement_tip) ==
    [clarity_score |-> clarity_score, fluency_score |-> fluency_score,
     professional_score |-> professional_score,
     improvement_tip |-> improvement_tip]

\* _generate_default_feedback()
DEFAULT_FEEDBACK ==
    Feedback(70, 70, 70,
             "Great practice session! Focus on being more specific when describing your work and any blockers you encounter.")

\* the analysis text the scorer returns when it answers, by what the two
\* patterns find in it: "CLARITY: 8", "FLUENCY: 6.5", "PROFESSIONAL: 12" and
\* no ONE_IMPROVEMENT line (<<>> for no match)
SCORER_ANALYSIS ==
    [CLARITY |-> <<80>>, FLUENCY |-> <<65>>, PROFESSIONAL |-> <<120>>,
     ONE_IMPROVEMENT |-> <<>>]

_extract_score(text, category) ==
    IF text[category] # <<>>
    THEN LET score == text[category][1]
             raised == IF score > 0 THEN score ELSE 0
         IN  IF raised < 100 THEN raised ELSE 100
    ELSE 70

_extract_improvement(text) ==
    IF text.ONE_IMPROVEMENT # <<>>
    THEN text.ONE_IMPROVEMENT[1]
    ELSE "Practice being more specific when describing your work and challenges."

user_messages(session) ==
    SelectSeq(session.conversation_history, LAMBDA m : m.role = USER)

\* the feedback built from the analysis text: lines 66-80
ScoredFeedback(text) ==
    Feedback(_extract_score(text, "CLARITY"), _extract_score(text, "FLUENCY"),
             _extract_score(text, "PROFESSIONAL"), _extract_improvement(text))

\* mutant: a transcript without user messages is sent to the scorer too
analyze_conversation_ScoresEmpty(session, scorer) ==
    IF scorer = "raises" THEN DEFAULT_FEEDBACK
    ELSE ScoredFeedback(SCORER_ANALYSIS)

analyze_conversation(session, scorer) ==
    IF user_messages(session) = <<>>
    THEN DEFAULT_FEEDBACK
    ELSE IF scorer = "raises" THEN DEFAULT_FEEDBACK
    ELSE ScoredFeedback(SCORER_ANALYSIS)

(***************************************************************************)
(* main.py: the handlers.                                                  *)
(***************************************************************************)
Init ==
    /\ sessions = <<>>
    /\ user_progress = UserProgress
    /\ now = 0
    /\ next_id = 1
    /\ resp = Response("none", 0, 0)
    /\ surprise_requests = <<>>
    /\ calls = NoCalls

\* mutant: the opening message is not appended
NewSession_NoOpening(id, scenario, t) == Session(id, scenario, t)

\* the session start_session builds: lines 76-90
NewSession(id, scenario, t) ==
    [Session(id, scenario, t) EXCEPT
        !.conversation_history = <<Message(MANAGER, scenario.initial_prompt)>>]

\* mutant: nothing is dropped
Store_NoEviction(map, session) == Append(map, session)

\* mutant: over capacity, the oldest session that has taken no turn is
\* dropped (the oldest one when every session has)
Store_EvictsUnused(map, session) ==
    LET inserted == Append(map, session)
        idle == {i \in DOMAIN map : Len(map[i].conversation_history) = 1}
        victim == IF idle = {} THEN 1
                  ELSE CHOOSE i \in idle : \A j \in idle : i <= j
    IN  IF Len(inserted) > MAX_SESSIONS_IN_MEMORY
        THEN [k \in 1..(Len(inserted) - 1) |->
                 IF k < victim THEN inserted[k] ELSE inserted[k + 1]]
        ELSE inserted

\* lines 93-95: insert, then drop the oldest entry when over capacity
Store(map, session) ==
    LET inserted == Append(map, session)
    IN  IF Len(inserted) > MAX_SESSIONS_IN_MEMORY THEN Tail(inserted) ELSE inserted

\* POST /start-session, for one scenario random.choice may return
start_session_request(scenario) ==
    /\ scenario \in select_scenario_for_user(user_progress)
    /\ sessions' = Store(sessions, NewSession(next_id, scenario, now))
    /\ resp' = [Response("start_session", next_id, 200) EXCEPT
                    !.initial_prompt = scenario.initial_prompt]
    /\ next_id' = next_id + 1
    /\ surprise_requests' = Append(surprise_requests, 0)
    /\ UNCHANGED <<user_progress, now, calls>>

start_session ==
    /\ next_id <= MaxIds
    /\ \A i \in DOMAIN sessions :
          Len(sessions[i].conversation_history) <= MaxSharedHistory
    /\ \E scenario \in ScenarioSet : start_session_request(scenario)

\* mutant: the reply is appended before the user message
SubmitTurn_ReplyFirst(session, user_message, t, gen) ==
    LET with_user == [session EXCEPT !.conversation_history =
                        Append(@, Message(USER, user_message))]
        r == get_manager_response(with_user, user_message, t, gen)
        swapped == [session EXCEPT !.conversation_history =
                        @ \o <<Message(MANAGER, r.manager_response),
                               Message(USER, user_message)>>]
    IN  IF r.should_end THEN [swapped EXCEPT !.is_active = FALSE] ELSE swapped

\* mutant: the session is never marked inactive
SubmitTurn_NeverEnds(session, user_message, t, gen) ==
    LET with_user == [session EXCEPT !.conversation_history =
                        Append(@, Message(USER, user_message))]
        r == get_manager_response(with_user, user_message, t, gen)
    IN  [with_user EXCEPT !.conversation_history =
            Append(@, Message(MANAGER, r.manager_response))]

\* mutant: the fallback reply is returned but not appended
SubmitTurn_FallbackNotAppended(session, user_message, t, gen) ==
    LET with_user == [session EXCEPT !.conversation_history =
                        Append(@, Message(USER, user_message))]
        r == get_manager_response(with_user, user_message, t, gen)
        with_reply == [with_user EXCEPT !.conversation_history =
                        Append(@, Message(MANAGER, r.manager_response))]
    IN  IF ~gen.ok THEN with_user
        ELSE IF r.should_end THEN [with_reply EXCEPT !.is_active = FALSE]
        ELSE with_reply

\* mutant: the reply that ends the session is returned but not appended
SubmitTurn_LastReplyNotAppended(session, user_message, t, gen) ==
    LET with_user == [session EXCEPT !.conversation_history =
                        Append(@, Message(USER, user_message))]
        r == get_manager_response(with_user, user_message, t, gen)
        with_reply == [with_user EXCEPT !.conversation_history =
                        Append(@, Message(MANAGER, r.manager_response))]
    IN  IF r.should_end THEN [with_user EXCEPT !.is_active = FALSE]
        ELSE with_reply

\* lines 154-178 on the session found: append the user message, get the
\* reply, append it, mark the session inactive when told to end
SubmitTurn(session, user_message, t, gen) ==
    LET with_user == [session EXCEPT !.conversation_history =
                        Append(@, Message(USER, user_message))]
        r == get_manager_response(with_user, user_message, t, gen)
        with_reply == [with_user EXCEPT !.conversation_history =
                        Append(@, Message(MANAGER, r.manager_response))]
    IN  IF r.should_end THEN [with_reply EXCEPT !.is_active = FALSE]
        ELSE with_reply

\* mutant: the is_active check is missing
ValidateSession_NoActiveCheck(map, id) ==
    IF Lookup(map, id) = 0 THEN 404 ELSE 200

\* lines 146-152: 404 for an unknown session, 400 for an inactive one
ValidateSession(map, id) ==
    IF Lookup(map, id) = 0 THEN 404
    ELSE IF ~map[Lookup(map, id)].is_active THEN 400
    ELSE 200

\* the handler of POST /get-manager-response, for one request and one
\* generator outcome; end_test is the value should_end takes at
\* conversation_engine.py:69
get_manager_response_handler(id, user_message, gen) ==
    LET i == Lookup(sessions, id)
        status == ValidateSession(sessions, id)
    IN  /\ IF status # 200
           THEN /\ resp' = Response("get_manager_response", id, status)
                /\ UNCHANGED <<sessions, surprise_requests>>
           ELSE /\ LET with_user == [sessions[i] EXCEPT !.conversation_history =
                                        Append(@, Message(USER, user_message))]
                       r == get_manager_response(with_user, user_message, now, gen)
                   IN  resp' = [Response("get_manager_response", id, 200) EXCEPT
                                   !.manager_response = r.manager_response,
                                   !.should_end_session = r.should_end,
                                   !.end_test = _should_end_conversation(with_user, now),
                                   !.generator_failed = ~gen.ok]
                /\ surprise_requests' =
                       IF surprise_instruction(
                              [sessions[i] EXCEPT !.conversation_history =
                                  Append(@, Message(USER, user_message))])
                       THEN [surprise_requests EXCEPT ![id] = @ + 1]
                       ELSE surprise_requests
                /\ sessions' = [sessions EXCEPT
                                   ![i] = SubmitTurn(@, user_message, now, gen)]
        /\ UNCHANGED <<user_progress, now, next_id>>

\* lines 154-178 with USE_MOCK_MODE set: the reply comes from the mock
SubmitTurnMock(session, user_message) ==
    LET with_user == [session EXCEPT !.conversation_history =
                        Append(@, Message(USER, user_message))]
        r == mock_get_manager_response(with_user, user_message)
        with_reply == [with_user EXCEPT !.conversation_history =
                        Append(@, Message(MANAGER, r.manager_response))]
    IN  IF r.should_end THEN [with_reply EXCEPT !.is_active = FALSE]
        ELSE with_reply

\* the handler of POST /get-manager-response with USE_MOCK_MODE set
mock_manager_response_request(id, user_message) ==
    LET i == Lookup(sessions, id)
        status == ValidateSession(sessions, id)
    IN  /\ IF status # 200
           THEN /\ resp' = Response("get_manager_response", id, status)
                /\ UNCHANGED sessions
           ELSE /\ LET with_user == [sessions[i] EXCEPT !.conversation_history =
                                        Append(@, Message(USER, user_message))]
                       r == mock_get_manager_response(with_user, user_message)
                   IN  resp' = [Response("get_manager_response", id, 200) EXCEPT
                                   !.manager_response = r.manager_response,
                                   !.should_end_session = r.should_end,
                                   !.end_test = r.should_end]
                /\ sessions' = [sessions EXCEPT
                                   ![i] = SubmitTurnMock(@, user_message)]
        /\ UNCHANGED <<user_progress, now, next_id, surprise_requests, calls>>

\* the histories the model lets a request on id add to
WithinBounds(id) ==
    ValidateSession(sessions, id) = 200 => MayGrow(sessions, Lookup(sessions, id))

\* POST /get-manager-response, handled as it arrives
get_manager_response_request(id, user_message, gen) ==
    /\ WithinBounds(id)
    /\ get_manager_response_handler(id, user_message, gen)
    /\ UNCHANGED calls

get_manager_response_endpoint ==
    \E id \in SessionIds, user_message \in UserTexts, gen \in GeneratorOutcomes :
        get_manager_response_request(id, user_message, gen)

\* mutant: the level is computed before the count is incremented
UpdateProgress_LevelBeforeCount(progress, t) ==
    [progress EXCEPT !.total_sessions = @ + 1,
                     !.last_session_date = <<t>>,
                     !.current_complexity = determine_next_complexity(progress),
                     !.streak_days = 1]

\* lines 215-221
UpdateProgress(progress, t) ==
    LET counted == [progress EXCEPT !.total_sessions = @ + 1,
                                    !.last_session_date = <<t>>]
        levelled == [counted EXCEPT
                        !.current_complexity = determine_next_complexity(counted)]
    IN  IF levelled.total_sessions > 0
        THEN [levelled EXCEPT !.streak_days = 1]
        ELSE levelled

\* mutant: a request for an unknown session is refused but still counted
get_feedback_request_CountsUnknown(id, scorer) ==
    LET i == Lookup(sessions, id) IN
    /\ IF i = 0
       THEN resp' = Response("get_feedback", id, 404)
       ELSE resp' = [Response("get_feedback", id, 200) EXCEPT
                        !.feedback = analyze_conversation(sessions[i], scorer)]
    /\ user_progress' = UpdateProgress(user_progress, now)
    /\ UNCHANGED <<sessions, now, next_id, surprise_requests, calls>>

\* mutant: the session feedback was given on is closed
get_feedback_request_ClosesSession(id, scorer) ==
    LET i == Lookup(sessions, id) IN
    /\ IF i = 0
       THEN /\ resp' = Response("get_feedback", id, 404)
            /\ UNCHANGED <<user_progress, sessions>>
       ELSE /\ resp' = [Response("get_feedback", id, 200) EXCEPT
                           !.feedback = analyze_conversation(sessions[i], scorer)]
            /\ user_progress' = UpdateProgress(user_progress, now)
            /\ sessions' = [sessions EXCEPT ![i].is_active = FALSE]
    /\ UNCHANGED <<now, next_id, surprise_requests, calls>>

\* POST /get-feedback, for one request and one scorer outcome
get_feedback_request(id, scorer) ==
    LET i == Lookup(sessions, id) IN
    /\ IF i = 0
       THEN /\ resp' = Response("get_feedback", id, 404)
            /\ UNCHANGED user_progress
       ELSE /\ resp' = [Response("get_feedback", id, 200) EXCEPT
                           !.feedback = analyze_conversation(sessions[i], scorer)]
            /\ user_progress' = UpdateProgress(user_progress, now)
    /\ UNCHANGED <<sessions, now, next_id, surprise_requests, calls>>

get_feedback ==
    \E id \in SessionIds, scorer \in ScorerOutcomes :
        /\ id \in StoredIds => user_progress.total_sessions < MaxTotalSessions
        /\ get_feedback_request(id, scorer)

\* GET /user-progress
get_user_progress ==
    /\ resp' = [Response("get_user_progress", 0, 200) EXCEPT
                   !.sessions_completed = user_progress.total_sessions,
                   !.current_level = user_progress.current_complexity,
                   !.streak = user_progress.streak_days]
    /\ UNCHANGED <<sessions, user_progress, now, next_id, surprise_requests, calls>>

\* mutant: the sessions created before the deleted one go with it
Remove_AndOlder(map, id) == SelectSeq(map, LAMBDA s : s.id > id)

\* del sessions[session_id]
Remove(map, id) == SelectSeq(map, LAMBDA s : s.id # id)

\* DELETE /session/{session_id}, for one request
delete_session_request(id) ==
    /\ IF id \in StoredIds
       THEN /\ sessions' = Remove(sessions, id)
            /\ resp' = Response("delete_session", id, 200)
       ELSE /\ resp' = Response("delete_session", id, 404)
            /\ UNCHANGED sessions
    /\ UNCHANGED <<user_progress, now, next_id, surprise_requests, calls>>

delete_session == \E id \in SessionIds : delete_session_request(id)

\* mutant: the session map is not cleared
reset_progress_KeepsSessions ==
    /\ user_progress' = UserProgress
    /\ resp' = Response("reset_progress", 0, 200)
    /\ UNCHANGED <<sessions, now, next_id, surprise_requests, calls>>

\* POST /reset-progress
reset_progress ==
    /\ user_progress' = UserProgress
    /\ sessions' = <<>>
    /\ resp' = Response("reset_progress", 0, 200)
    /\ UNCHANGED <<now, next_id, surprise_requests, calls>>

\* the wall clock advances between requests
Tick ==
    /\ now < MaxNow
    /\ now' = now + 1
    /\ UNCHANGED <<sessions, user_progress, next_id, resp, surprise_requests, calls>>

Next ==
    \/ start_session
    \/ get_manager_response_endpoint
    \/ get_feedback
    \/ get_user_progress
    \/ delete_session
    \/ reset_progress
    \/ Tick

Spec == Init /\ [][Next]_vars


(***************************************************************************)
(* The selector on its own: total_sessions is drawn from 0..MaxT, as it    *)
(* stands after that many get_feedback calls, and sessions are started.    *)
(***************************************************************************)
RECURSIVE ProgressAfter(_)
ProgressAfter(t) ==
    IF t = 0 THEN UserProgress ELSE UpdateProgress(ProgressAfter(t - 1), 0)

InitTier ==
    /\ sessions = <<>>
    /\ user_progress \in {ProgressAfter(t) : t \in 0..MaxT}
    /\ now = 0
    /\ next_id = 1
    /\ resp = Response("none", 0, 0)
    /\ surprise_requests = <<>>
    /\ calls = NoCalls

NextTier ==
    \/ start_session
    \/ get_user_progress

SpecTier == InitTier /\ [][NextTier]_vars

(***************************************************************************)
(* The progress record on its own: total_sessions is drawn from 0..MaxT,   *)
(* a session is started, feedback is requested for it, progress is reset.  *)
(***************************************************************************)
ProgressFeedback ==
    \E id \in SessionIds, scorer \in ScorerOutcomes :
        /\ id \in StoredIds =>
               user_progress.total_sessions < MaxT + MaxTotalSessions
        /\ get_feedback_request(id, scorer)

NextProgress ==
    \/ start_session
    \/ ProgressFeedback
    \/ get_user_progress
    \/ reset_progress

SpecProgress == InitTier /\ [][NextProgress]_vars

(***************************************************************************)
(* The session map at its capacity.  The run starts after                  *)
(* MAX_SESSIONS_IN_MEMORY - 1 start_session calls made at time 0 with no    *)
(* session completed, each of which drew the first EASY scenario; requests  *)
(* then name the two oldest of these sessions, the first session created   *)
(* afterwards and an identifier never handed out; the generator and the    *)
(* scorer answer.                                                          *)
(***************************************************************************)
Preloaded == MAX_SESSIONS_IN_MEMORY - 1

InitStore ==
    /\ sessions = [i \in 1..Preloaded |-> NewSession(i, SCENARIOS[1], 0)]
    /\ user_progress = UserProgress
    /\ now = 0
    /\ next_id = Preloaded + 1
    /\ resp = Response("none", 0, 0)
    /\ surprise_requests = [i \in 1..Preloaded |-> 0]
    /\ calls = NoCalls

StoreRequestIds == {1, 2, Preloaded + 1, Preloaded + MaxStoreNew + 1}

\* scenarios random.choice returns in this specification
StoreScenarios == {SCENARIOS[1], SCENARIOS[3]}

StoreStart ==
    /\ next_id <= Preloaded + MaxStoreNew
    /\ \E scenario \in StoreScenarios : start_session_request(scenario)

StoreSubmit ==
    \E id \in StoreRequestIds, user_message \in UserTexts :
        \E gen \in {o \in GeneratorOutcomes : o.ok} :
            get_manager_response_request(id, user_message, gen)

StoreFeedback ==
    \E id \in StoreRequestIds :
        /\ id \in StoredIds => user_progress.total_sessions < MaxTotalSessions
        /\ get_feedback_request(id, "scored")

StoreDelete == \E id \in StoreRequestIds : delete_session_request(id)

NextStore ==
    \/ StoreStart
    \/ StoreSubmit
    \/ StoreFeedback
    \/ StoreDelete
    \/ reset_progress

SpecStore == InitStore /\ [][NextStore]_vars

(***************************************************************************)
(* One conversation from its start to its end, for every scenario of the   *)
(* catalog: the run starts with no session, one is started, and turns are  *)
(* submitted to it while the clock advances.  The generator answers with   *)
(* a reply that holds no keyword, with one that names the manager, or      *)
(* fails.                                                                  *)
(***************************************************************************)
SurpriseOutcomes ==
    GeneratorOutcomes \cup {[ok |-> TRUE, content |-> KEYWORD_REPLY]}

\* total_sessions at the start: an EASY, a MEDIUM and a HARD draw
SurpriseCounts == {0, 2, 6}

InitSurprise ==
    /\ sessions = <<>>
    /\ user_progress \in {ProgressAfter(t) : t \in SurpriseCounts}
    /\ now = 0
    /\ next_id = 1
    /\ resp = Response("none", 0, 0)
    /\ surprise_requests = <<>>
    /\ calls = NoCalls

SurpriseStart ==
    /\ next_id = 1
    /\ \E scenario \in ScenarioSet : start_session_request(scenario)

SurpriseSubmit ==
    \E user_message \in UserTexts, gen \in SurpriseOutcomes :
        get_manager_response_request(1, user_message, gen)

NextSurprise ==
    \/ SurpriseStart
    \/ SurpriseSubmit
    \/ Tick

SpecSurprise == InitSurprise /\ [][NextSurprise]_vars

(***************************************************************************)
(* Requests in flight.  Clients send get-manager-response requests while   *)
(* earlier ones have not been handled; the event loop runs the handler of  *)
(* one received request at a time, in any order, from its first statement  *)
(* to its return (main.py:134-188 holds no await, and get_manager_response *)
(* is a plain function that calls the generator synchronously).  A         *)
(* generator call that neither returns nor raises keeps the handler, and   *)
(* with it the event loop, where it is: conversation_engine.py:79-84 sets  *)
(* no timeout.                                                             *)
(***************************************************************************)
\* request.user_message of the requests, in order of arrival
CallTexts ==
    <<"I finished the login page.", "The tests are failing.",
      "I need one more day.">>

\* the handler of no request waits inside the generator call
EventLoopFree == \A c \in calls.pending : c.pc # "waiting"

CallPending(n) == \E c \in calls.pending : c.call = n

\* a client sends a get-manager-response request
ReceiveCall ==
    /\ calls.arrived < MaxCalls
    /\ calls.arrived < Len(CallTexts)
    /\ \E id \in SessionIds :
           calls' = [pending |-> calls.pending \cup
                                   {[call |-> calls.arrived + 1, session_id |-> id,
                                     user_message |-> CallTexts[calls.arrived + 1],
                                     pc |-> "received"]},
                     arrived |-> calls.arrived + 1]
    /\ UNCHANGED <<sessions, user_progress, now, next_id, resp, surprise_requests>>

\* mutant: the generator call is awaited, so the event loop runs other
\* handlers between the append of the user message and the reply
HandleCall_YieldsAtGenerator(c, gen) ==
    /\ c \in calls.pending
    /\ EventLoopFree
    /\ IF c.pc = "received"
       THEN IF ValidateSession(sessions, c.session_id) # 200
            THEN /\ get_manager_response_handler(c.session_id, c.user_message, gen)
                 /\ calls' = [calls EXCEPT !.pending = @ \ {c}]
            ELSE /\ MayGrow(sessions, Lookup(sessions, c.session_id))
                 /\ sessions' = [sessions EXCEPT
                        ![Lookup(sessions, c.session_id)].conversation_history =
                            Append(@, Message(USER, c.user_message))]
                 /\ calls' = [calls EXCEPT !.pending =
                                 (@ \ {c}) \cup {[c EXCEPT !.pc = "generator"]}]
                 /\ UNCHANGED <<user_progress, now, next_id, resp, surprise_requests>>
       ELSE /\ Lookup(sessions, c.session_id) # 0
            /\ LET i == Lookup(sessions, c.session_id)
                   r == get_manager_response(sessions[i], c.user_message, now, gen)
                   with_reply == [sessions[i] EXCEPT !.conversation_history =
                                     Append(@, Message(MANAGER, r.manager_response))]
               IN  /\ sessions' = [sessions EXCEPT ![i] =
                          IF r.should_end THEN [with_reply EXCEPT !.is_active = FALSE]
                          ELSE with_reply]
                   /\ resp' = [Response("get_manager_response", c.session_id, 200) EXCEPT
                                   !.manager_response = r.manager_response,
                                   !.should_end_session = r.should_end,
                                   !.end_test = _should_end_conversation(sessions[i], now),
                                   !.generator_failed = ~gen.ok]
            /\ calls' = [calls EXCEPT !.pending = @ \ {c}]
            /\ UNCHANGED <<user_progress, now, next_id, surprise_requests>>

\* the event loop runs the handler of a received request, for one generator
\* outcome, and the response is sent
HandleCall(c, gen) ==
    /\ c \in calls.pending
    /\ c.pc = "received"
    /\ EventLoopFree
    /\ WithinBounds(c.session_id)
    /\ get_manager_response_handler(c.session_id, c.user_message, gen)
    /\ calls' = [calls EXCEPT !.pending = @ \ {c}]

\* the event loop runs the handler of a received request up to the
\* generator call, which neither returns nor raises
HangCall(c) ==
    /\ c \in calls.pending
    /\ c.pc = "received"
    /\ EventLoopFree
    /\ ValidateSession(sessions, c.session_id) = 200
    /\ LET i == Lookup(sessions, c.session_id)
           with_user == [sessions[i] EXCEPT !.conversation_history =
                            Append(@, Message(USER, c.user_message))]
       IN  /\ MayGrow(sessions, i)
           /\ sessions' = [sessions EXCEPT ![i] = with_user]
           /\ surprise_requests' =
                  IF surprise_instruction(with_user)
                  THEN [surprise_requests EXCEPT ![c.session_id] = @ + 1]
                  ELSE surprise_requests
    /\ calls' = [calls EXCEPT !.pending =
                    (@ \ {c}) \cup {[c EXCEPT !.pc = "waiting"]}]
    /\ UNCHANGED <<user_progress, now, next_id, resp>>

CallsStart == EventLoopFree /\ start_session

CallsHandle ==
    \E c \in calls.pending, gen \in GeneratorOutcomes : HandleCall(c, gen)

CallsHang == \E c \in calls.pending : HangCall(c)

NextCalls ==
    \/ CallsStart
    \/ ReceiveCall
    \/ CallsHandle
    \/ CallsHang
    \/ Tick

\* the event loop does not leave a received request unhandled while it is
\* free to run its handler
SpecCalls == Init /\ [][NextCalls]_vars /\ WF_vars(CallsHandle)

(***************************************************************************)
(* One conversation carried on for as long as it is active: the learner    *)
(* keeps submitting, and the generator fails on any of the first           *)
(* END_EXCHANGE_COUNT + MaxLateFailures submissions and on none after.     *)
(***************************************************************************)
LiveStart ==
    /\ next_id = 1
    /\ \E scenario \in ScenarioSet : start_session_request(scenario)

LiveSubmitOk ==
    \E user_message \in UserTexts, gen \in {o \in GeneratorOutcomes : o.ok} :
        /\ get_manager_response_handler(1, user_message, gen)
        /\ UNCHANGED calls

LiveSubmitFails ==
    \E user_message \in UserTexts, gen \in {o \in GeneratorOutcomes : ~o.ok} :
        /\ ValidateSession(sessions, 1) = 200
        /\ Len(user_messages(sessions[Lookup(sessions, 1)])) <
               END_EXCHANGE_COUNT + MaxLateFailures
        /\ get_manager_response_handler(1, user_message, gen)
        /\ UNCHANGED calls

NextLive ==
    \/ LiveStart
    \/ LiveSubmitOk
    \/ LiveSubmitFails
    \/ Tick

\* the learner keeps submitting and the generator answers again and again
SpecLive == Init /\ [][NextLive]_vars /\ WF_vars(LiveSubmitOk)

(***************************************************************************)
(* Real mode and mock mode side by side: two conversations on the same     *)
(* scenario, started at the same time, session REAL_RUN answered by the    *)
(* generator and session MOCK_RUN by the mock, with no generator failure   *)
(* and no time passing.                                                    *)
(***************************************************************************)
REAL_RUN == 1
MOCK_RUN == 2

MockStart ==
    /\ next_id <= MOCK_RUN
    /\ \E scenario \in ScenarioSet :
           /\ next_id = MOCK_RUN => scenario = sessions[1].scenario
           /\ start_session_request(scenario)

RealSubmit ==
    \E user_message \in UserTexts, gen \in {o \in GeneratorOutcomes : o.ok} :
        /\ get_manager_response_handler(REAL_RUN, user_message, gen)
        /\ UNCHANGED calls

MockSubmit ==
    \E user_message \in UserTexts :
        mock_manager_response_request(MOCK_RUN, user_message)

NextMock ==
    \/ MockStart
    \/ RealSubmit
    \/ MockSubmit

SpecMock == InitSurprise /\ [][NextMock]_vars

(***************************************************************************)
(* Properties.                                                             *)
(***************************************************************************)
Stored(id) == id \in StoredIds
History(id) == SessionOf(id).conversation_history
LastResponseIs(op, status) == resp.op = op /\ resp.status = status

\* C1: the session start_session has just stored has exactly one turn, the
\* MANAGER turn with its scenario's opening line, and is active; and in
\* every state the first turn of every stored session is the MANAGER turn
\* with its scenario's opening line.
C1_OpeningTurn ==
    /\ \A i \in DOMAIN sessions :
        /\ Len(sessions[i].conversation_history) >= 1
        /\ sessions[i].conversation_history[1] =
               Message(MANAGER, sessions[i].scenario.initial_prompt)
    /\ LastResponseIs("start_session", 200) =>
        /\ Stored(resp.session_id)
        /\ History(resp.session_id) =
               <<Message(MANAGER, SessionOf(resp.session_id).scenario.initial_prompt)>>
        /\ resp.initial_prompt = SessionOf(resp.session_id).scenario.initial_prompt
        /\ SessionOf(resp.session_id).is_active

\* a session that was started has since taken six exchanges and ended,
\* and its first turn is the opening line
C1_Witness ==
    \E i \in DOMAIN sessions :
        /\ Len(sessions[i].conversation_history) = MaxHistory
        /\ ~sessions[i].is_active
        /\ sessions[i].start_time < now
        /\ sessions[i].conversation_history[1] =
               Message(MANAGER, sessions[i].scenario.initial_prompt)

\* a request the handler accepts: the session is stored and active
Accepted(id) == Stored(id) /\ SessionOf(id).is_active

\* the step's response is one to a get-manager-response request on id
Answers(id) == resp'.op = "get_manager_response" /\ resp'.session_id = id

\* C2: a turn submitted to an active session appends one USER turn with
\* the submitted text and then one MANAGER turn with the returned reply;
\* the turns before them stay as they were and the count grows by 2.
C2_AppendsUserThenManager ==
    [][\A id \in SessionIds, user_message \in UserTexts, gen \in GeneratorOutcomes :
        (Answers(id) /\ Accepted(id)
            /\ get_manager_response_request(id, user_message, gen)) =>
            /\ resp'.status = 200
            /\ Lookup(sessions', id) = Lookup(sessions, id)
            /\ sessions'[Lookup(sessions, id)].conversation_history =
                   History(id) \o <<Message(USER, user_message),
                                    Message(MANAGER, resp'.manager_response)>>
            /\ Len(sessions'[Lookup(sessions, id)].conversation_history) =
                   Len(History(id)) + 2]_vars

\* a second turn has been answered: five turns, the last two USER, MANAGER
C2_Witness ==
    /\ LastResponseIs("get_manager_response", 200)
    /\ Stored(resp.session_id)
    /\ Len(History(resp.session_id)) = 5
    /\ History(resp.session_id)[4].role = USER
    /\ History(resp.session_id)[5] = Message(MANAGER, resp.manager_response)

\* C3: a turn submitted to a stored session that has ended is refused with
\* status 400 and changes neither the session map nor the user progress.
C3_EndedRefuses ==
    [][\A id \in SessionIds, user_message \in UserTexts, gen \in GeneratorOutcomes :
        (Answers(id) /\ Stored(id) /\ ~SessionOf(id).is_active
            /\ get_manager_response_request(id, user_message, gen)) =>
            /\ resp'.status = 400
            /\ resp'.manager_response = None
            /\ sessions' = sessions
            /\ user_progress' = user_progress]_vars

\* a turn was refused on a session that ended after six exchanges
C3_Witness ==
    /\ LastResponseIs("get_manager_response", 400)
    /\ Stored(resp.session_id)
    /\ ~SessionOf(resp.session_id).is_active
    /\ Len(History(resp.session_id)) = MaxHistory

\* C4: a stored session that has ended is never active again, and a session
\* goes from active to ended only in a get-manager-response call on it whose
\* end test was true.
C4_EndedIsTerminal ==
    [][\A id \in SessionIds :
        (sessions' # sessions /\ Stored(id)
            /\ id \in {sessions'[i].id : i \in DOMAIN sessions'}) =>
            LET before == SessionOf(id)
                after == sessions'[Lookup(sessions', id)]
            IN  /\ ~before.is_active => ~after.is_active
                /\ (before.is_active /\ ~after.is_active) =>
                    /\ Answers(id)
                    /\ \E user_message \in UserTexts, gen \in GeneratorOutcomes :
                           get_manager_response_request(id, user_message, gen)
                    /\ resp'.end_test = TRUE]_vars

\* feedback was requested on an ended session, which is still stored
C4_Witness ==
    /\ LastResponseIs("get_feedback", 200)
    /\ Stored(resp.session_id)
    /\ ~SessionOf(resp.session_id).is_active

\* floor(turnCount / 2), the USER turn included and the reply not yet
ExchangeCountAtTest(id) == (Len(History(id)) + 1) \div 2

\* C5: on an accepted call the end test is true exactly when the exchange
\* count, taken after the USER turn and before the reply, is at least 6 or
\* the time since the session was created is at least the duration limit.
C5_EndTest ==
    [][\A id \in SessionIds, user_message \in UserTexts, gen \in GeneratorOutcomes :
        (Answers(id) /\ Accepted(id)
            /\ get_manager_response_request(id, user_message, gen)) =>
            (resp'.end_test = TRUE <=>
                \/ ExchangeCountAtTest(id) >= 6
                \/ now - SessionOf(id).start_time >= MAX_SESSION_DURATION)]_vars

\* the end test is true on the sixth exchange with no time elapsed
C5_Witness ==
    /\ LastResponseIs("get_manager_response", 200)
    /\ resp.end_test = TRUE
    /\ Stored(resp.session_id)
    /\ Len(History(resp.session_id)) = 13
    /\ now = SessionOf(resp.session_id).start_time

\* the end test is true on the first submission, the limit being reached
C5_WitnessElapsed ==
    /\ LastResponseIs("get_manager_response", 200)
    /\ resp.end_test = TRUE
    /\ Stored(resp.session_id)
    /\ Len(History(resp.session_id)) = 3
    /\ now - SessionOf(resp.session_id).start_time >= MAX_SESSION_DURATION

\* C6, as claimed: every accepted call whose end test is true returns
\* ended = true and leaves the session ended.
C6_EndTestEnds ==
    (LastResponseIs("get_manager_response", 200) /\ resp.end_test = TRUE) =>
        /\ resp.should_end_session = TRUE
        /\ Stored(resp.session_id) => ~SessionOf(resp.session_id).is_active

\* C6, amended: every accepted call whose end test is true and whose
\* generator call succeeds returns ended = true with the generated reply
\* and leaves the session ended.
C6_EndTestEndsOnSuccess ==
    (LastResponseIs("get_manager_response", 200) /\ resp.end_test = TRUE
        /\ ~resp.generator_failed) =>
        /\ resp.should_end_session = TRUE
        /\ Stored(resp.session_id)
        /\ ~SessionOf(resp.session_id).is_active
        /\ History(resp.session_id)[Len(History(resp.session_id))] =
               Message(MANAGER, resp.manager_response)
        /\ resp.manager_response \in {g.content : g \in {o \in GeneratorOutcomes : o.ok}}

\* a successful call with a true end test
C6_Witness ==
    /\ LastResponseIs("get_manager_response", 200)
    /\ resp.end_test = TRUE
    /\ ~resp.generator_failed
    /\ resp.should_end_session = TRUE
    /\ ~SessionOf(resp.session_id).is_active

\* C7: when the generator fails the call still succeeds, returns the fixed
\* fallback reply with ended = false, and the session stays active, also
\* when the end test was true on that call.
C7_FailureKeepsActive ==
    (resp.op = "get_manager_response" /\ resp.generator_failed) =>
        /\ resp.status = 200
        /\ resp.manager_response = "I see. Can you tell me more about that?"
        /\ resp.should_end_session = FALSE
        /\ Stored(resp.session_id)
        /\ SessionOf(resp.session_id).is_active

\* the generator failed on the sixth exchange, with the end test true
C7_Witness ==
    /\ resp.op = "get_manager_response"
    /\ resp.generator_failed
    /\ resp.end_test = TRUE
    /\ Len(History(resp.session_id)) = 13
    /\ SessionOf(resp.session_id).is_active

\* C8, as claimed: when the generator fails the turn count grows by 1 and the
\* last turn is the MANAGER turn with the fallback text.
C8_FailureAddsOneTurn ==
    [][\A id \in SessionIds, user_message \in UserTexts, gen \in GeneratorOutcomes :
        (Answers(id) /\ ~gen.ok /\ Accepted(id)
            /\ get_manager_response_request(id, user_message, gen)) =>
            LET after == sessions'[Lookup(sessions, id)].conversation_history
            IN  /\ Len(after) = Len(History(id)) + 1
                /\ after[Len(after)] = Message(MANAGER, FALLBACK_RESPONSE)]_vars

\* C8, amended: when the generator fails the turn count grows by 2, as on a
\* successful call: the USER turn, then the MANAGER turn with the fallback
\* text.
C8_FailureAddsTwoTurns ==
    [][\A id \in SessionIds, user_message \in UserTexts, gen \in GeneratorOutcomes :
        (Answers(id) /\ ~gen.ok /\ Accepted(id)
            /\ get_manager_response_request(id, user_message, gen)) =>
            LET after == sessions'[Lookup(sessions, id)].conversation_history
            IN  /\ Len(after) = Len(History(id)) + 2
                /\ after[Len(after) - 1] = Message(USER, user_message)
                /\ after[Len(after)] = Message(MANAGER, FALLBACK_RESPONSE)]_vars

\* the generator failed on a call: the history ends USER, MANAGER fallback
C8_Witness ==
    /\ resp.op = "get_manager_response"
    /\ resp.generator_failed
    /\ Len(History(resp.session_id)) = 3
    /\ History(resp.session_id)[2].role = USER
    /\ History(resp.session_id)[3] = Message(MANAGER, FALLBACK_RESPONSE)

\* C9: with total_sessions = t, every scenario the selector returns has
\* tier EASY when t < 2, MEDIUM when 2 <= t < 5, and for t >= 5 HARD when
\* t mod 3 = 0 and MEDIUM otherwise, and no other tier.
C9_SelectedTier ==
    \A i \in DOMAIN sessions :
        LET t == user_progress.total_sessions
            tier == sessions[i].scenario.complexity_level
        IN  /\ t < 2 => tier = EASY
            /\ (2 <= t /\ t < 5) => tier = MEDIUM
            /\ (t >= 5 /\ t % 3 = 0) => tier = HARD
            /\ (t >= 5 /\ t % 3 # 0) => tier = MEDIUM
            /\ tier = EASY => t < 2
            /\ tier = HARD => (t >= 5 /\ t % 3 = 0)

\* with six sessions completed a HARD scenario has been selected
C9_Witness ==
    /\ user_progress.total_sessions = 6
    /\ LastResponseIs("start_session", 200)
    /\ \E i \in DOMAIN sessions : sessions[i].scenario.complexity_level = HARD

\* C10, as claimed: the level determine_next_complexity gives for
\* total_sessions, which get-progress reports, is the tier of every scenario
\* the selector returns for that total_sessions.
C10_NextTierIsSelectedTier ==
    \A i \in DOMAIN sessions :
        /\ determine_next_complexity(user_progress) =
               sessions[i].scenario.complexity_level
        /\ user_progress.current_complexity =
               sessions[i].scenario.complexity_level

\* the identifiers of a session map, in eviction order
IdOrder(map) == [i \in DOMAIN map |-> map[i].id]

\* the step is a start_session call
Starts == resp'.op = "start_session" /\ next_id' = next_id + 1

\* C11: the session map never holds more than 100 sessions, and a
\* start_session call made with 100 sessions stored leaves 100 stored:
\* exactly one of the earlier sessions is gone and the new one is kept.
C11_StoreCapacity ==
    /\ [](Len(sessions) <= 100)
    /\ [][(Starts /\ Len(sessions) = 100) =>
            /\ Len(sessions') = 100
            /\ Cardinality(StoredIds \ {sessions'[i].id : i \in DOMAIN sessions'}) = 1
            /\ {sessions'[i].id : i \in DOMAIN sessions'} \ StoredIds = {next_id}
            /\ resp'.session_id = next_id]_vars

\* the 101st session has been created: 100 sessions are stored, the new one
\* among them and the first one not
C11_Witness ==
    /\ LastResponseIs("start_session", 200)
    /\ resp.session_id = 101
    /\ Len(sessions) = 100
    /\ StoredIds = 2..101

\* C12: the session a start_session call evicts is the earliest-created one
\* in the store, whether or not it is active or has taken turns, and the
\* other sessions keep their order with the new one last; a
\* get-manager-response or get-feedback call leaves the eviction order as
\* it was.
C12_EvictionIsFifo ==
    [][/\ (Starts /\ Len(sessions) = 100) =>
            /\ \A id \in StoredIds : sessions[1].id <= id
            /\ IdOrder(sessions') = Tail(IdOrder(sessions)) \o <<next_id>>
       /\ resp'.op \in {"get_manager_response", "get_feedback"} =>
            IdOrder(sessions') = IdOrder(sessions)]_vars

\* session 1 has been evicted; session 2, which is active and has taken a
\* turn, is now the oldest of 100 stored sessions
C12_Witness ==
    /\ LastResponseIs("start_session", 200)
    /\ StoredIds = 2..101
    /\ sessions[1].id = 2
    /\ sessions[1].is_active
    /\ Len(sessions[1].conversation_history) = 3

\* the step is a call of one of the three handlers that look a session up,
\* for session id
LooksUp(id) ==
    /\ resp'.session_id = id
    /\ \/ \E user_message \in UserTexts, gen \in GeneratorOutcomes :
              get_manager_response_request(id, user_message, gen)
       \/ \E scorer \in ScorerOutcomes : get_feedback_request(id, scorer)
       \/ delete_session_request(id)

\* C13: a get-manager-response, get-feedback or delete-session call for an
\* identifier that is not in the session map (never handed out, evicted,
\* deleted or cleared by reset) is answered 404 and changes neither the
\* session map nor the user progress.
C13_UnknownSessionNotFound ==
    [][\A id \in StoreRequestIds :
        (LooksUp(id) /\ ~Stored(id)) =>
            /\ resp'.status = 404
            /\ sessions' = sessions
            /\ user_progress' = user_progress]_vars

\* feedback was requested for session 1 after it was evicted from a full
\* store, and nothing was counted
C13_Witness ==
    /\ LastResponseIs("get_feedback", 404)
    /\ resp.session_id = 1
    /\ StoredIds = 2..101
    /\ user_progress.total_sessions = 0

\* C14: a get-feedback call on a stored session raises total_sessions by
\* exactly 1, sets streak_days to 1 and sets current_complexity to
\* determine_next_complexity of the raised count; total_sessions goes down
\* only in a reset-progress call; and in every state current_complexity is
\* determine_next_complexity of total_sessions.
C14_FeedbackUpdatesProgress ==
    /\ [](user_progress.current_complexity = determine_next_complexity(user_progress))
    /\ [][\A id \in SessionIds, scorer \in ScorerOutcomes :
            (Stored(id) /\ get_feedback_request(id, scorer)) =>
                /\ resp'.status = 200
                /\ user_progress'.total_sessions = user_progress.total_sessions + 1
                /\ user_progress'.streak_days = 1
                /\ user_progress'.current_complexity =
                       determine_next_complexity(
                           [total_sessions |-> user_progress.total_sessions + 1])]_vars
    /\ [][user_progress'.total_sessions < user_progress.total_sessions =>
            /\ reset_progress
            /\ user_progress'.total_sessions = 0]_vars

\* the fifth feedback request has been served: the level went from MEDIUM
\* to HARD
C14_Witness ==
    /\ LastResponseIs("get_feedback", 200)
    /\ user_progress.total_sessions = 5
    /\ user_progress.current_complexity = HARD
    /\ user_progress.streak_days = 1

\* C15, as claimed: total_sessions counts sessions that have ended.  Of the
\* sessions handed out, those still stored and active have never ended, so
\* total_sessions is at most the number of the others.
C15_CountsEndedSessions ==
    user_progress.total_sessions <=
        Cardinality({id \in 1..(next_id - 1) :
                        ~Stored(id) \/ ~SessionOf(id).is_active})

\* C16: a reset-progress call leaves the user progress at its defaults and
\* the session map empty, so that every identifier handed out before it is
\* unknown to the handlers; and a start_session call that follows it stores
\* a session with an EASY scenario.
C16_ResetRestoresDefaults ==
    [][/\ reset_progress =>
            /\ user_progress' = [total_sessions |-> 0, current_complexity |-> "easy",
                                 streak_days |-> 0, last_session_date |-> <<>>]
            /\ sessions' = <<>>
            /\ \A id \in 1..(next_id - 1) : ValidateSession(sessions', id) = 404
       /\ (Starts /\ resp.op = "reset_progress") =>
            /\ Len(sessions') = 1
            /\ sessions'[1].id = next_id
            /\ sessions'[1].scenario.complexity_level = "easy"]_vars

\* after two completed sessions and a reset, the 101st session was started
\* and is alone in the store
C16_Witness ==
    /\ LastResponseIs("start_session", 200)
    /\ StoredIds = {101}
    /\ user_progress.total_sessions = 0
    /\ SessionOf(101).scenario.complexity_level = EASY

\* C17: a delete-session call for a stored identifier is answered 200 and
\* removes that session and nothing else: the identifier is then unknown,
\* the other sessions are as they were, in the same order, and the user
\* progress is unchanged.
C17_DeleteRemovesOne ==
    [][\A id \in StoreRequestIds :
        (Stored(id) /\ resp'.session_id = id /\ delete_session_request(id)) =>
            LET at == Lookup(sessions, id)
            IN  /\ resp'.status = 200
                /\ ValidateSession(sessions', id) = 404
                /\ Len(sessions') = Len(sessions) - 1
                /\ \A i \in DOMAIN sessions' :
                       sessions'[i] = IF i < at THEN sessions[i] ELSE sessions[i + 1]
                /\ user_progress' = user_progress]_vars

\* session 2 was deleted: session 1, which has taken a turn, is still first
\* and session 3 follows it
C17_Witness ==
    /\ LastResponseIs("delete_session", 200)
    /\ resp.session_id = 2
    /\ Len(sessions) = Preloaded - 1
    /\ sessions[1].id = 1
    /\ Len(sessions[1].conversation_history) = 3
    /\ sessions[2].id = 3

\* the first three words of each surprise element of the catalog, in
\* lower case
SurpriseKeywords ==
    [id \in {"medium_1", "hard_6"} |-> {"manager", "asks", "about"}]
    @@ [id \in {"medium_2"} |-> {"manager", "asks", "you"}]
    @@ [id \in {"medium_3"} |-> {"manager", "asks", "when"}]
    @@ [id \in {"medium_4"} |-> {"manager", "asks", "if"}]
    @@ [id \in {"medium_5"} |-> {"manager", "asks", "how"}]
    @@ [id \in {"hard_1"} |-> {"manager", "reveals", "client"}]
    @@ [id \in {"hard_2"} |-> {"manager", "suggests", "adding"}]
    @@ [id \in {"hard_3"} |-> {"manager", "asks", "why"}]
    @@ [id \in {"hard_4"} |-> {"manager", "adds", "another"}]
    @@ [id \in {"hard_5"} |-> {"manager", "emphasizes", "quality"}]

\* two characters are the same letter, whatever their case
SameLetter(a, b) ==
    \/ a = b
    \/ \E k \in 1..Len(UPPERCASE) :
           {a, b} = {CharAt(UPPERCASE, k), CharAt(LOWERCASE, k)}

\* the text contains the word, case-insensitively
MentionsWord(text, word) ==
    \E i \in 0..(Len(text) - Len(word)) :
        \A j \in 1..Len(word) : SameLetter(CharAt(text, i + j), CharAt(word, j))

\* for every scenario with a surprise element and every text of a MANAGER
\* turn: the text contains one of the scenario's surprise keywords
MentionsKeyword ==
    [id \in DOMAIN SurpriseKeywords, text \in ManagerTexts |->
        \E word \in SurpriseKeywords[id] : MentionsWord(text, word)]

HasSurprise(session) == session.scenario.id \in DOMAIN SurpriseKeywords

\* a MANAGER turn of the history contains a surprise keyword of the scenario
Introduced(history, scenario) ==
    /\ scenario.id \in DOMAIN SurpriseKeywords
    /\ \E i \in DOMAIN history :
           /\ history[i].role = MANAGER
           /\ MentionsKeyword[scenario.id, history[i].content]

\* the number of the submission a call on the session makes
SubmissionNumber(id) ==
    Len(SelectSeq(History(id), LAMBDA m : m.role = USER)) + 1

\* C18: on an accepted get-manager-response call the request carries the
\* surprise instruction exactly when the scenario has a surprise element,
\* the exchange count (taken after the USER turn, before the reply) is 2, 3
\* or 4, and no MANAGER turn of the history contains a surprise keyword; so
\* it is carried only by the 2nd, 3rd and 4th submission of a session.
C18_SurpriseInstruction ==
    [][\A id \in SessionIds, user_message \in UserTexts, gen \in SurpriseOutcomes :
        (Answers(id) /\ Accepted(id)
            /\ get_manager_response_request(id, user_message, gen)) =>
            LET added == surprise_requests'[id] = surprise_requests[id] + 1
            IN  /\ ~added => surprise_requests'[id] = surprise_requests[id]
                /\ added <=>
                       /\ HasSurprise(SessionOf(id))
                       /\ ExchangeCountAtTest(id) \in 2..4
                       /\ ~Introduced(History(id), SessionOf(id).scenario)
                /\ added => SubmissionNumber(id) \in {2, 3, 4}
                /\ (HasSurprise(SessionOf(id)) /\ SubmissionNumber(id) \in {2, 3, 4}
                        /\ ~Introduced(History(id), SessionOf(id).scenario)) => added]_vars

\* the second and the third submission both carried the instruction, no
\* reply having held a keyword
C18_Witness ==
    /\ LastResponseIs("get_manager_response", 200)
    /\ Stored(1)
    /\ Len(History(1)) = 7
    /\ surprise_requests[1] = 2
    /\ ~Introduced(History(1), SessionOf(1).scenario)

\* C19: once a MANAGER turn of a session contains a surprise keyword, in
\* whatever case, no later call on the session carries the instruction, and
\* the history goes on containing the keyword.
C19_SurpriseLatch ==
    [][\A id \in SessionIds, user_message \in UserTexts, gen \in SurpriseOutcomes :
        (Answers(id) /\ Accepted(id)
            /\ Introduced(History(id), SessionOf(id).scenario)
            /\ get_manager_response_request(id, user_message, gen)) =>
            /\ surprise_requests' = surprise_requests
            /\ Introduced(sessions'[Lookup(sessions, id)].conversation_history,
                          SessionOf(id).scenario)]_vars

\* the second submission carried the instruction and was answered with a
\* reply naming the "Manager"; the third submission carried none
C19_Witness ==
    /\ LastResponseIs("get_manager_response", 200)
    /\ Stored(1)
    /\ SessionOf(1).scenario.id = "hard_4"
    /\ Len(History(1)) = 7
    /\ History(1)[3].content # KEYWORD_REPLY
    /\ History(1)[5] = Message(MANAGER, KEYWORD_REPLY)
    /\ surprise_requests[1] = 1

\* C20, as claimed: a session with a surprise element that has ended had
\* exactly one request sent with the surprise instruction, and no session
\* ever has more than one.
C20_InstructedExactlyOnce ==
    \A i \in DOMAIN sessions :
        HasSurprise(sessions[i]) =>
            /\ surprise_requests[sessions[i].id] <= 1
            /\ ~sessions[i].is_active => surprise_requests[sessions[i].id] = 1

\* the submissions of a history that carried the instruction: the 2nd, 3rd
\* and 4th ones made while no earlier MANAGER turn contained a keyword
InstructedSubmissions(session) ==
    {k \in 2..4 :
        /\ 2 * k <= Len(session.conversation_history)
        /\ ~Introduced(SubSeq(session.conversation_history, 1, 2 * k - 1),
                       session.scenario)}

\* C20, amended: the requests of a session sent with the surprise
\* instruction are those of its 2nd, 3rd and 4th submissions made while no
\* MANAGER turn contained a surprise keyword: none to three of them, and
\* none for a scenario without a surprise element.
C20_InstructedUntilIntroduced ==
    \A i \in DOMAIN sessions :
        LET count == surprise_requests[sessions[i].id]
        IN  /\ count \in 0..3
            /\ ~HasSurprise(sessions[i]) => count = 0
            /\ HasSurprise(sessions[i]) =>
                   count = Cardinality(InstructedSubmissions(sessions[i]))

\* a session with a surprise element has ended after three requests with
\* the instruction
C20_Witness ==
    \E i \in DOMAIN sessions :
        /\ HasSurprise(sessions[i])
        /\ ~sessions[i].is_active
        /\ surprise_requests[sessions[i].id] = 3

\* a session with a surprise element has ended with no request carrying
\* the instruction
C20_WitnessNever ==
    \E i \in DOMAIN sessions :
        /\ HasSurprise(sessions[i])
        /\ ~sessions[i].is_active
        /\ surprise_requests[sessions[i].id] = 0

\* the step's response is one to a get-feedback request on id
AnswersFeedback(id) == resp'.op = "get_feedback" /\ resp'.session_id = id

\* C21: a get-feedback call on a stored session whose history has no USER
\* turn, or on which the scorer raises, is answered 200 with the default
\* feedback: the three scores 7.0 and the generic tip.
C21_DefaultFeedback ==
    [][\A id \in SessionIds, scorer \in ScorerOutcomes :
        (AnswersFeedback(id) /\ Stored(id) /\ get_feedback_request(id, scorer)
            /\ \/ scorer = "raises"
               \/ \A i \in DOMAIN History(id) : History(id)[i].role # USER) =>
            /\ resp'.status = 200
            /\ resp'.feedback =
                   [clarity_score |-> 70, fluency_score |-> 70,
                    professional_score |-> 70,
                    improvement_tip |-> "Great practice session! Focus on being more specific when describing your work and any blockers you encounter."]]_vars

\* feedback was requested for a freshly created session and the default
\* feedback returned
C21_Witness ==
    /\ LastResponseIs("get_feedback", 200)
    /\ Stored(resp.session_id)
    /\ Len(History(resp.session_id)) = 1
    /\ resp.feedback.clarity_score = 70
    /\ resp.feedback = DEFAULT_FEEDBACK

\* the scorer raised on a session with user turns and the default feedback
\* was returned
C21_WitnessScorerFails ==
    /\ LastResponseIs("get_feedback", 200)
    /\ Stored(resp.session_id)
    /\ Len(History(resp.session_id)) = 5
    /\ resp.feedback = DEFAULT_FEEDBACK

\* C22: the handler of a get-manager-response request runs from start to
\* end before any other does.  Handling a request on an active session
\* appends its USER turn and directly after it its reply, and its end test
\* is taken on the history so far with that USER turn; a request on a
\* session an earlier handler has ended is refused and appends nothing;
\* and whenever a handler can start, every stored history alternates
\* MANAGER, USER, ..., MANAGER.
C22_CallsSerialized ==
    /\ [](EventLoopFree =>
            \A i \in DOMAIN sessions :
                LET h == sessions[i].conversation_history
                IN  /\ Len(h) % 2 = 1
                    /\ \A k \in DOMAIN h :
                           h[k].role = IF k % 2 = 1 THEN MANAGER ELSE USER)
    /\ [][\A c \in calls.pending, gen \in GeneratorOutcomes :
            (Stored(c.session_id) /\ HandleCall(c, gen)) =>
                LET before == SessionOf(c.session_id)
                    after == sessions'[Lookup(sessions, c.session_id)]
                IN  /\ c \notin calls'.pending
                    /\ before.is_active =>
                        /\ after.conversation_history =
                               before.conversation_history \o
                                   <<Message(USER, c.user_message),
                                     Message(MANAGER, resp'.manager_response)>>
                        /\ resp'.end_test = TRUE <=>
                               \/ (Len(before.conversation_history) + 1) \div 2 >= 6
                               \/ now - before.start_time >= MAX_SESSION_DURATION
                    /\ ~before.is_active =>
                        /\ resp'.status = 400
                        /\ sessions' = sessions]_vars

\* two requests on the session were in flight together and the one that
\* arrived second was handled first: each reply follows its own user turn
C22_Witness ==
    /\ calls.arrived = 2
    /\ calls.pending = {}
    /\ Stored(1)
    /\ Len(History(1)) = 5
    /\ History(1)[2] = Message(USER, CallTexts[2])
    /\ History(1)[3].role = MANAGER
    /\ History(1)[4] = Message(USER, CallTexts[1])
    /\ History(1)[5].role = MANAGER

\* of two requests in flight together, the first handled ended the session
\* and the other was refused
C22_WitnessRefused ==
    /\ calls.arrived = 2
    /\ calls.pending = {}
    /\ LastResponseIs("get_manager_response", 400)
    /\ Stored(1)
    /\ ~SessionOf(1).is_active
    /\ Len(History(1)) = 3

\* the sessions of a map registered under an identifier
RegisteredUnder(map, id) == {i \in DOMAIN map : map[i].id = id}

\* C23: no two stored sessions share an identifier; a get-manager-response
\* request on an identifier changes no session registered under another
\* identifier, is answered 404 exactly when no session is registered under
\* its identifier, and when accepted appends its two turns to the session
\* registered under that identifier; and creating a session (with or
\* without eviction) or deleting one leaves every session that stays
\* stored as it was under its identifier.
C23_SessionsIsolated ==
    /\ [](\A i, j \in DOMAIN sessions : sessions[i].id = sessions[j].id => i = j)
    /\ [][\A id \in StoreRequestIds, user_message \in UserTexts,
            gen \in GeneratorOutcomes :
            get_manager_response_request(id, user_message, gen) =>
                /\ Len(sessions') = Len(sessions)
                /\ \A i \in DOMAIN sessions :
                       IF sessions[i].id # id
                       THEN sessions'[i] = sessions[i]
                       ELSE /\ sessions'[i].id = id
                            /\ resp'.status = 200 =>
                                   sessions'[i].conversation_history =
                                       sessions[i].conversation_history \o
                                           <<Message(USER, user_message),
                                             Message(MANAGER, resp'.manager_response)>>
                            /\ resp'.status # 200 => sessions'[i] = sessions[i]
                /\ resp'.status = 404 <=> RegisteredUnder(sessions, id) = {}
                /\ resp'.status = 200 =>
                       \E i \in RegisteredUnder(sessions, id) : sessions[i].is_active]_vars
    /\ [][(StoreStart \/ StoreDelete) =>
            \A i \in DOMAIN sessions :
                \A j \in RegisteredUnder(sessions', sessions[i].id) :
                    sessions'[j] = sessions[i]]_vars

\* after an eviction moved every session one place down, a turn submitted
\* on the oldest session left went to that session and to no other
C23_Witness ==
    /\ LastResponseIs("get_manager_response", 200)
    /\ resp.session_id = 2
    /\ Len(sessions) = MAX_SESSIONS_IN_MEMORY
    /\ sessions[1].id = 2
    /\ Len(sessions[1].conversation_history) = 3
    /\ \A i \in DOMAIN sessions :
           i # 1 => Len(sessions[i].conversation_history) = 1

\* C24, as claimed: every get-manager-response request that has been
\* received is eventually answered, and a request whose generator call
\* got no answer is answered with the fallback reply appended as the last
\* MANAGER turn of its session.
C24_EveryCallReturns ==
    \A n \in 1..MaxCalls :
        /\ CallPending(n) ~> ~CallPending(n)
        /\ (\E c \in calls.pending : c.call = n /\ c.pc = "waiting") ~>
               /\ ~CallPending(n)
               /\ LastResponseIs("get_manager_response", 200)
               /\ resp.manager_response = "I see. Can you tell me more about that?"

\* no reply of the history is the fallback text
NeverFailed(history) ==
    \A k \in DOMAIN history :
        history[k].role = MANAGER =>
            history[k].content # "I see. Can you tell me more about that?"

\* C25: on a session whose generator calls have all succeeded, an accepted
\* call made before the duration limit, whose generator call succeeds too,
\* ends the session exactly when it is the 6th submission: submissions 1
\* to 5 return ended = false and leave the session active, the 6th returns
\* ended = true with the generated reply as the 13th and last turn; and a
\* session the learner keeps submitting to, the generator answering again
\* and again, is eventually ended.
C25_EndsOnSixthCall ==
    /\ [][\A user_message \in UserTexts, gen \in {o \in GeneratorOutcomes : o.ok} :
            (Accepted(1) /\ NeverFailed(History(1))
                /\ now - SessionOf(1).start_time < MAX_SESSION_DURATION
                /\ get_manager_response_handler(1, user_message, gen)) =>
                LET after == sessions'[Lookup(sessions, 1)]
                IN  /\ SubmissionNumber(1) <= 6
                    /\ resp'.should_end_session = TRUE <=> SubmissionNumber(1) = 6
                    /\ after.is_active <=> SubmissionNumber(1) < 6
                    /\ Len(after.conversation_history) = 2 * SubmissionNumber(1) + 1
                    /\ after.conversation_history[Len(after.conversation_history)] =
                           Message(MANAGER, gen.content)
                    /\ resp'.manager_response = gen.content]_vars
    /\ Stored(1) ~> (Stored(1) /\ ~SessionOf(1).is_active)

\* the sixth submission of a session ended it before the duration limit,
\* no generator call having failed
C25_Witness ==
    /\ LastResponseIs("get_manager_response", 200)
    /\ resp.should_end_session = TRUE
    /\ Stored(1)
    /\ ~SessionOf(1).is_active
    /\ Len(History(1)) = 13
    /\ NeverFailed(History(1))
    /\ now - SessionOf(1).start_time < MAX_SESSION_DURATION

\* the generator failed on the sixth and on the seventh submission, and the
\* eighth ended the session
C25_WitnessLate ==
    /\ LastResponseIs("get_manager_response", 200)
    /\ resp.should_end_session = TRUE
    /\ Stored(1)
    /\ ~SessionOf(1).is_active
    /\ Len(History(1)) = 17
    /\ History(1)[13].content = "I see. Can you tell me more about that?"
    /\ History(1)[15].content = "I see. Can you tell me more about that?"

\* C26: after every request, every stored session's history has an odd
\* number of turns, the odd ones MANAGER turns and the even ones USER
\* turns: it begins and ends with a MANAGER turn and no two consecutive
\* turns have the same role.
C26_RolesAlternate ==
    \A i \in DOMAIN sessions :
        LET h == sessions[i].conversation_history
        IN  /\ Len(h) % 2 = 1
            /\ h[1].role = MANAGER
            /\ h[Len(h)].role = MANAGER
            /\ \A k \in 1..(Len(h) - 1) : h[k].role # h[k + 1].role

\* a session ended on its sixth exchange after a generator failure on an
\* earlier one: thirteen turns, a fallback reply among them
C26_Witness ==
    \E i \in DOMAIN sessions :
        LET h == sessions[i].conversation_history
        IN  /\ Len(h) = 13
            /\ ~sessions[i].is_active
            /\ \E k \in 2..11 : h[k] = Message(MANAGER, FALLBACK_RESPONSE)
            /\ h[13].content # FALLBACK_RESPONSE

\* C27: a get-feedback request changes nothing but the user progress: the
\* session map, with every history and every active flag, is as before,
\* so a session that was stored and active still is; and a
\* get-manager-response request that follows a get-feedback request on a
\* session not yet ended (younger than the duration limit, fewer than six
\* exchanges) is accepted and appends its two turns.
C27_FeedbackKeepsSession ==
    /\ [][\A id \in SessionIds, scorer \in ScorerOutcomes :
            (AnswersFeedback(id) /\ get_feedback_request(id, scorer)) =>
                /\ sessions' = sessions
                /\ next_id' = next_id
                /\ now' = now
                /\ Accepted(id) =>
                       \E i \in DOMAIN sessions' :
                           /\ sessions'[i].id = id
                           /\ sessions'[i].is_active
                           /\ sessions'[i].conversation_history = History(id)]_vars
    /\ [][\A id \in SessionIds, user_message \in UserTexts, gen \in GeneratorOutcomes :
            (LastResponseIs("get_feedback", 200) /\ resp.session_id = id
                /\ Stored(id) /\ MayGrow(sessions, Lookup(sessions, id))
                /\ Len(History(id)) < 2 * END_EXCHANGE_COUNT
                /\ now = SessionOf(id).start_time
                /\ get_manager_response_request(id, user_message, gen)) =>
                /\ resp'.status = 200
                /\ Len(sessions'[Lookup(sessions, id)].conversation_history) =
                       Len(History(id)) + 2]_vars

\* feedback was given on a session that had taken no turn and was active,
\* and the turn submitted after it was accepted
C27_Witness ==
    /\ LastResponseIs("get_manager_response", 200)
    /\ user_progress.total_sessions = 1
    /\ Stored(1)
    /\ next_id = 2
    /\ Len(History(1)) = 3
    /\ History(1)[2].role = USER

\* C28, as claimed: the opening line of a scenario with a surprise element
\* contains none of its surprise keywords, so the 2nd submission of a
\* session on such a scenario, the reply to the 1st having contained no
\* keyword, is sent to the generator with the surprise instruction.
C28_SecondCallInstructed ==
    [][\A user_message \in UserTexts, gen \in SurpriseOutcomes :
        (Accepted(1) /\ HasSurprise(SessionOf(1))
            /\ SubmissionNumber(1) = 2
            /\ ~MentionsKeyword[SessionOf(1).scenario.id, History(1)[3].content]
            /\ get_manager_response_request(1, user_message, gen)) =>
            /\ \A word \in SurpriseKeywords[SessionOf(1).scenario.id] :
                   ~MentionsWord(SessionOf(1).scenario.initial_prompt, word)
            /\ surprise_requests'[1] = surprise_requests[1] + 1]_vars

\* C29, as claimed: after the same number of submitted turns the session
\* run in mock mode and the session run in real mode are both active or
\* both ended, and in either mode a call returns ended = true exactly when
\* it is the one that brings the history to 13 turns, the 6th.
C29_MockEndsWithReal ==
    /\ (Len(sessions) = 2
            /\ Len(sessions[1].conversation_history) =
                   Len(sessions[2].conversation_history)) =>
           sessions[1].is_active = sessions[2].is_active
    /\ (LastResponseIs("get_manager_response", 200)
            /\ resp.session_id \in StoredIds) =>
           (resp.should_end_session = TRUE <=> Len(History(resp.session_id)) = 13)

====
